---- MODULE Spec2Model ----
(***************************************************************************)
(* Model of src/src/mapgen.cpp: the ground, heightmap and liquid scanners, *)
(* the lighting pass (calcLighting / lightSpread) and GenElementManager.   *)
(*                                                                         *)
(* Voxel positions are <<x, y, z>>.  The voxel manipulator's m_data is     *)
(* kept as two maps over the buffer's positions: content (getContent())    *)
(* and param1.  ndef is the node property table.                           *)
(***************************************************************************)
EXTENDS Integers, Sequences, FiniteSets, TLC

VARIABLES
    content,        \* vm->m_data[i].getContent(), by position
    param1,         \* vm->m_data[i].param1 (u8), by position
    ndef,           \* node property table: content -> ContentFeatures
    water_level,    \* Mapgen::water_level
    heightmap,      \* Mapgen::heightmap: index -> s16, or NULL_HEIGHTMAP
    trans_liquid,   \* the caller's UniqueQueue<v3s16>
    m_elements,     \* GenElementManager::m_elements: Seq of element or NULL
    elem_id,        \* GenElement::id of every element object that exists
    created,        \* how many element objects the caller has created so far
    call            \* the last call made: its arguments, what it returned
                    \* and the state it started from

vars == <<content, param1, ndef, water_level, heightmap, trans_liquid,
          m_elements, elem_id, created, call>>

---------------------------------------------------------------------------
(* Bounds of the model. *)

\* lighting: the region is LX x LY x 1 nodes, the buffer has one more row on top
LX == 2
LY == 2
\* lighting: how many nodes of the buffer differ from dark air
MaxNodes == 2
\* lighting: how many times calcLighting runs in succession
MaxRuns == 2
\* scanners: the buffer is SX x SY x 1 nodes
SX == 2
SY == 3
\* scanners: how many nodes of the buffer differ from the fill
MaxEdits == 3

\* registry: the model's value of GenElementManager::ELEMENT_LIMIT
ELEMENT_LIMIT == 3
\* registry: how many element objects the caller creates
MaxElements == 4

(* Program constants. *)
LIGHT_SUN == 15

\* an empty slot of m_elements
NULL == 0

\* a heightmap that is not attached (heightmap == NULL)
NULL_HEIGHTMAP == [i \in {} |-> 0]

\* what add returns when the table is full: -1 as u32, which is 2^32 - 1 and
\* above every index of the table
NO_ID == -1

CONTENT_IGNORE == "ignore"

---------------------------------------------------------------------------
(* Vectors and areas. *)

VAdd(p, d) == <<p[1] + d[1], p[2] + d[2], p[3] + d[3]>>
VSub(p, d) == <<p[1] - d[1], p[2] - d[2], p[3] - d[3]>>

\* VoxelArea a(nmin, nmax)
VoxelArea(nmin, nmax) == [MinEdge |-> nmin, MaxEdge |-> nmax]

\* a.contains(p)
Contains(a, p) ==
    /\ p[1] >= a.MinEdge[1] /\ p[1] <= a.MaxEdge[1]
    /\ p[2] >= a.MinEdge[2] /\ p[2] <= a.MaxEdge[2]
    /\ p[3] >= a.MinEdge[3] /\ p[3] <= a.MaxEdge[3]

Positions(a) ==
    { <<x, y, z>> : x \in a.MinEdge[1] .. a.MaxEdge[1],
                    y \in a.MinEdge[2] .. a.MaxEdge[2],
                    z \in a.MinEdge[3] .. a.MaxEdge[3] }

\* u8 & 0x0F
Low4(v) == v % 16

---------------------------------------------------------------------------
(* The node property table. *)

Features(w, lp, sp, ls, lq) ==
    [walkable |-> w, light_propagates |-> lp, sunlight_propagates |-> sp,
     light_source |-> ls, liquid |-> lq]

\* a table with the usual node kinds; the torch's emission level is a parameter
NodeDef(torch) ==
    [c \in {"ignore", "air", "stone", "water", "torch"} |->
        CASE c = "ignore" -> Features(FALSE, FALSE, FALSE, 0, FALSE)
          [] c = "air"    -> Features(FALSE, TRUE, TRUE, 0, FALSE)
          [] c = "stone"  -> Features(TRUE, FALSE, FALSE, 0, FALSE)
          [] c = "water"  -> Features(FALSE, TRUE, FALSE, 0, TRUE)
          [] c = "torch"  -> Features(FALSE, TRUE, TRUE, torch, FALSE)]

---------------------------------------------------------------------------
(* Lighting: Mapgen::lightSpread and Mapgen::calcLighting.                 *)
(* A lighting state st is [param1, steps, sunlit]: the light field, the    *)
(* propagation steps made so far, each [from, written, by], and the nodes  *)
(* the sun shafts assigned LIGHT_SUN to.                                   *)

\* what the sweep hands to lightSpread for a node of light level light
SweepArg(light) == light - 1

\* variant: lightSpread that writes the neighbour but spreads no further
lightSpread_NoRecursion(st, a, p, light, src) ==
    IF light <= 1 \/ ~Contains(a, p) THEN st
    ELSE
        LET l == light - 1 IN
        IF l <= st.param1[p] \/ ~ndef[content[p]].light_propagates THEN st
        ELSE [st EXCEPT
                !.param1[p] = l,
                !.steps = @ \cup
                    {[from |-> src.light, written |-> l, by |-> src.by]}]

\* src is [light, by]: the light level of the adjacent node the call was made
\* for, and whether the sweep or lightSpread itself made the call
RECURSIVE lightSpread(_, _, _, _, _)
lightSpread(st, a, p, light, src) ==
    IF light <= 1 \/ ~Contains(a, p) THEN st
    ELSE
        LET l == light - 1 IN
        IF l <= st.param1[p] \/ ~ndef[content[p]].light_propagates THEN st
        ELSE
            LET s0 == [st EXCEPT
                         !.param1[p] = l,
                         !.steps = @ \cup
                             {[from |-> src.light, written |-> l, by |-> src.by]}]
                s1 == lightSpread(s0, a, VAdd(p, <<0, 0, 1>>), l, [light |-> l, by |-> "spread"])
                s2 == lightSpread(s1, a, VAdd(p, <<0, 1, 0>>), l, [light |-> l, by |-> "spread"])
                s3 == lightSpread(s2, a, VAdd(p, <<1, 0, 0>>), l, [light |-> l, by |-> "spread"])
                s4 == lightSpread(s3, a, VSub(p, <<0, 0, 1>>), l, [light |-> l, by |-> "spread"])
                s5 == lightSpread(s4, a, VSub(p, <<0, 1, 0>>), l, [light |-> l, by |-> "spread"])
            IN  lightSpread(s5, a, VSub(p, <<1, 0, 0>>), l, [light |-> l, by |-> "spread"])

\* block_is_underground
Underground(nmax) == water_level >= nmax[2]

\* variant: the sun shaft without the block_is_underground test
ShaftEnters_AnyDepth(i, underground) ==
    IF content[i] = CONTENT_IGNORE
    THEN TRUE
    ELSE Low4(param1[i]) = LIGHT_SUN

\* whether the column under the overtop node i gets a sun shaft
ShaftEnters(i, underground) ==
    IF content[i] = CONTENT_IGNORE
    THEN ~underground
    ELSE Low4(param1[i]) = LIGHT_SUN

\* the inner loop of the sun shaft: y from a.MaxEdge.Y down to a.MinEdge.Y
RECURSIVE SunShaft(_, _, _, _, _)
SunShaft(st, a, x, z, y) ==
    IF y < a.MinEdge[2] THEN st
    ELSE IF ~ndef[content[<<x, y, z>>]].sunlight_propagates THEN st
    ELSE SunShaft([st EXCEPT !.param1[<<x, y, z>>] = LIGHT_SUN,
                             !.sunlit = @ \cup {<<x, y, z>>}],
                  a, x, z, y - 1)

\* the first pass: columns in the order z outer, x inner
RECURSIVE SunPass(_, _, _, _)
SunPass(st, a, x, z) ==
    IF z > a.MaxEdge[3] THEN st
    ELSE IF x > a.MaxEdge[1] THEN SunPass(st, a, a.MinEdge[1], z + 1)
    ELSE
        LET i == <<x, a.MaxEdge[2] + 1, z>>
            s1 == IF ShaftEnters(i, Underground(a.MaxEdge))
                  THEN SunShaft(st, a, x, z, a.MaxEdge[2])
                  ELSE st
        IN  SunPass(s1, a, x + 1, z)

\* the body of the second pass for the node at p
SweepNode(st, a, p) ==
    IF content[p] = CONTENT_IGNORE \/ ~ndef[content[p]].light_propagates
    THEN st
    ELSE
        LET light_produced == Low4(ndef[content[p]].light_source)
            s0 == IF light_produced # 0
                  THEN [st EXCEPT !.param1[p] = light_produced]
                  ELSE st
            light == Low4(s0.param1[p])
        IN
        IF light = 0 THEN s0
        ELSE
            LET arg == SweepArg(light)
                s1 == lightSpread(s0, a, VAdd(p, <<0, 0, 1>>), arg, [light |-> light, by |-> "sweep"])
                s2 == lightSpread(s1, a, VAdd(p, <<0, 1, 0>>), arg, [light |-> light, by |-> "sweep"])
                s3 == lightSpread(s2, a, VAdd(p, <<1, 0, 0>>), arg, [light |-> light, by |-> "sweep"])
                s4 == lightSpread(s3, a, VSub(p, <<0, 0, 1>>), arg, [light |-> light, by |-> "sweep"])
                s5 == lightSpread(s4, a, VSub(p, <<0, 1, 0>>), arg, [light |-> light, by |-> "sweep"])
            IN  lightSpread(s5, a, VSub(p, <<1, 0, 0>>), arg, [light |-> light, by |-> "sweep"])

\* the second pass: nodes in the order z outer, y middle, x inner
RECURSIVE Sweep(_, _, _, _, _)
Sweep(st, a, x, y, z) ==
    IF z > a.MaxEdge[3] THEN st
    ELSE IF y > a.MaxEdge[2] THEN Sweep(st, a, a.MinEdge[1], a.MinEdge[2], z + 1)
    ELSE IF x > a.MaxEdge[1] THEN Sweep(st, a, a.MinEdge[1], y + 1, z)
    ELSE Sweep(SweepNode(st, a, <<x, y, z>>), a, x + 1, y, z)

calcLighting(nmin, nmax) ==
    LET a  == VoxelArea(nmin, nmax)
        s0 == [param1 |-> param1, steps |-> {}, sunlit |-> {}]
        s1 == SunPass(s0, a, a.MinEdge[1], a.MinEdge[3])
    IN  Sweep(s1, a, a.MinEdge[1], a.MinEdge[2], a.MinEdge[3])

---------------------------------------------------------------------------
(* The lighting specification: a generated buffer, then calcLighting on    *)
(* its region, run again with no change in between.                        *)

LightRegion == VoxelArea(<<0, 0, 0>>, <<LX - 1, LY - 1, 0>>)
\* the region and the row of nodes above its top edge
LightBuffer == VoxelArea(<<0, 0, 0>>, <<LX - 1, LY, 0>>)

\* what generation may leave at a position instead of dark air
\* (46 = 0x2E: a param1 with its high nibble set)
PlacedNodes ==
    { [content |-> "stone", param1 |-> 0],
      [content |-> "ignore", param1 |-> 0],
      [content |-> "water", param1 |-> 0],
      [content |-> "torch", param1 |-> 0],
      [content |-> "air", param1 |-> LIGHT_SUN],
      [content |-> "air", param1 |-> 46] }

NoCall == [op |-> "none"]

InitLight ==
    /\ \E S \in SUBSET Positions(LightBuffer) :
         /\ Cardinality(S) <= MaxNodes
         /\ \E f \in [S -> PlacedNodes] :
              /\ content = [p \in Positions(LightBuffer) |->
                              IF p \in S THEN f[p].content ELSE "air"]
              /\ param1 = [p \in Positions(LightBuffer) |->
                              IF p \in S THEN f[p].param1 ELSE 0]
    /\ \E t \in 1 .. LIGHT_SUN : ndef = NodeDef(t)
    /\ water_level \in {LY - 2, LY - 1, LY}
    /\ heightmap = NULL_HEIGHTMAP
    /\ trans_liquid = <<>>
    /\ m_elements = <<>>
    /\ elem_id = <<>>
    /\ created = 0
    /\ call = NoCall

CalcLighting ==
    /\ call.op \in {"none", "calcLighting"}
    /\ call.op = "calcLighting" => call.run < MaxRuns
    /\ LET r == calcLighting(LightRegion.MinEdge, LightRegion.MaxEdge) IN
         /\ param1' = r.param1
         /\ call' = [op |-> "calcLighting",
                     run |-> IF call.op = "none" THEN 1 ELSE call.run + 1,
                     before |-> param1,
                     steps |-> r.steps,
                     sunlit |-> r.sunlit]
    /\ UNCHANGED <<content, ndef, water_level, heightmap, trans_liquid,
                   m_elements, elem_id, created>>

NextLight == CalcLighting

SpecLight == InitLight /\ [][NextLight]_vars

---------------------------------------------------------------------------
(* Ground scans and the heightmap: Mapgen::findGroundLevelFull,            *)
(* Mapgen::findGroundLevel and Mapgen::updateHeightmap.                    *)

\* vm->m_area of the scanners' buffer: SX x SY x 1 nodes
ScanArea == VoxelArea(<<0, 0, 0>>, <<SX - 1, SY - 1, 0>>)

\* variant: the scan loop with the bound y > ymin
RECURSIVE GroundScan_StopsAboveMin(_, _, _)
GroundScan_StopsAboveMin(p2d, y, ymin) ==
    IF y > ymin /\ ~ndef[content[<<p2d[1], y, p2d[2]>>]].walkable
    THEN GroundScan_StopsAboveMin(p2d, y - 1, ymin)
    ELSE y

\* the scan loop of both functions: y runs from ymax down to ymin and the loop
\* is left at the first walkable node; the value is y when the loop ends
RECURSIVE GroundScan(_, _, _)
GroundScan(p2d, y, ymin) ==
    IF y >= ymin /\ ~ndef[content[<<p2d[1], y, p2d[2]>>]].walkable
    THEN GroundScan(p2d, y - 1, ymin)
    ELSE y

findGroundLevelFull(p2d) ==
    LET y_nodes_max == ScanArea.MaxEdge[2]
        y_nodes_min == ScanArea.MinEdge[2]
        y == GroundScan(p2d, y_nodes_max, y_nodes_min)
    IN  IF y >= y_nodes_min THEN y ELSE y_nodes_min - 1

findGroundLevel(p2d, ymin, ymax) == GroundScan(p2d, ymax, ymin)

\* variant: the old entry is kept whenever the scan returns an edge value and
\* the entry lies outside [nmin.Y, nmax.Y]
TrustOld_AnyOutside(y, old, nmin, nmax) ==
    /\ (y = nmax[2] \/ y = nmin[2] - 1)
    /\ (old < nmin[2] \/ old > nmax[2])

\* the two tests that leave heightmap[index] as it is
TrustOld(y, old, nmin, nmax) ==
    \/ (y = nmax[2] /\ old > nmax[2])
    \/ (y = nmin[2] - 1 /\ old < nmin[2])

\* the loops over z (outer) and x (inner); index counts the columns visited
RECURSIVE HeightmapLoop(_, _, _, _, _, _)
HeightmapLoop(hm, nmin, nmax, x, z, index) ==
    IF z > nmax[3] THEN hm
    ELSE IF x > nmax[1] THEN HeightmapLoop(hm, nmin, nmax, nmin[1], z + 1, index)
    ELSE
        LET y == findGroundLevel(<<x, z>>, nmin[2], nmax[2]) IN
        HeightmapLoop(IF TrustOld(y, hm[index], nmin, nmax)
                      THEN hm
                      ELSE [hm EXCEPT ![index] = y],
                      nmin, nmax, x + 1, z, index + 1)

updateHeightmap(nmin, nmax) ==
    IF heightmap = NULL_HEIGHTMAP THEN heightmap
    ELSE HeightmapLoop(heightmap, nmin, nmax, nmin[1], nmin[3], 0)

---------------------------------------------------------------------------
(* Liquid transitions: Mapgen::updateLiquid.                               *)

\* variant: wasliquid starts as false
InitialWasLiquid_False == FALSE

\* wasliquid at the top of every column
InitialWasLiquid == TRUE

\* the loop over y of one column; pushed is the sequence of push_back calls
RECURSIVE LiquidColumn(_, _, _, _, _, _)
LiquidColumn(pushed, x, z, y, ymin, wasliquid) ==
    IF y < ymin THEN pushed
    ELSE
        LET isliquid == ndef[content[<<x, y, z>>]].liquid IN
        LiquidColumn(IF isliquid # wasliquid
                     THEN Append(pushed, <<x, y, z>>)
                     ELSE pushed,
                     x, z, y - 1, ymin, isliquid)

\* the loops over z (outer) and x (inner)
RECURSIVE LiquidLoop(_, _, _, _, _)
LiquidLoop(pushed, nmin, nmax, x, z) ==
    IF z > nmax[3] THEN pushed
    ELSE IF x > nmax[1] THEN LiquidLoop(pushed, nmin, nmax, nmin[1], z + 1)
    ELSE LiquidLoop(LiquidColumn(pushed, x, z, nmax[2], nmin[2], InitialWasLiquid),
                    nmin, nmax, x + 1, z)

\* the positions updateLiquid hands to trans_liquid->push_back, in order
updateLiquid(nmin, nmax) == LiquidLoop(<<>>, nmin, nmax, nmin[1], nmin[3])

Range(q) == { q[i] : i \in 1 .. Len(q) }

\* UniqueQueue::push_back: a value already queued is not queued again
push_back(q, v) == IF v \in Range(q) THEN q ELSE Append(q, v)

RECURSIVE PushAll(_, _)
PushAll(q, vs) ==
    IF vs = <<>> THEN q ELSE PushAll(push_back(q, Head(vs)), Tail(vs))

---------------------------------------------------------------------------
(* The scanners' specifications: a generated buffer, then one call.        *)

\* the regions a call may be given: boxes inside the buffer
Boxes(a) ==
    { VoxelArea(<<x1, y1, a.MinEdge[3]>>, <<x2, y2, a.MaxEdge[3]>>) :
        x1 \in a.MinEdge[1] .. a.MaxEdge[1], x2 \in a.MinEdge[1] .. a.MaxEdge[1],
        y1 \in a.MinEdge[2] .. a.MaxEdge[2], y2 \in a.MinEdge[2] .. a.MaxEdge[2] }

Regions(a) == { b \in Boxes(a) : b.MinEdge[1] <= b.MaxEdge[1] /\ b.MinEdge[2] <= b.MaxEdge[2] }

Columns(a) == { <<x, z>> : x \in a.MinEdge[1] .. a.MaxEdge[1],
                           z \in a.MinEdge[3] .. a.MaxEdge[3] }

\* a buffer of `fill` with at most MaxEdits nodes of `other`
InitScanBuffer(fill, other) ==
    /\ \E S \in SUBSET Positions(ScanArea) :
         /\ Cardinality(S) <= MaxEdits
         /\ content = [p \in Positions(ScanArea) |-> IF p \in S THEN other ELSE fill]
    /\ param1 = [p \in Positions(ScanArea) |-> 0]
    /\ ndef = NodeDef(LIGHT_SUN)
    /\ water_level = 0
    /\ m_elements = <<>>
    /\ elem_id = <<>>
    /\ created = 0
    /\ call = NoCall

InitGround ==
    /\ \/ InitScanBuffer("air", "stone")
       \/ InitScanBuffer("stone", "air")
    /\ \/ heightmap = NULL_HEIGHTMAP
       \/ \E h \in (ScanArea.MinEdge[2] - 2) .. (ScanArea.MaxEdge[2] + 2) :
            heightmap = [i \in 0 .. (Cardinality(Columns(ScanArea)) - 1) |-> h]
    /\ trans_liquid = <<>>

FindGroundLevelFull(p2d) ==
    /\ call.op = "none"
    /\ call' = [op |-> "findGroundLevelFull", p2d |-> p2d,
                val |-> findGroundLevelFull(p2d)]
    /\ UNCHANGED <<content, param1, ndef, water_level, heightmap, trans_liquid,
                   m_elements, elem_id, created>>

FindGroundLevel(p2d, ymin, ymax) ==
    /\ call.op = "none"
    /\ call' = [op |-> "findGroundLevel", p2d |-> p2d, ymin |-> ymin, ymax |-> ymax,
                val |-> findGroundLevel(p2d, ymin, ymax)]
    /\ UNCHANGED <<content, param1, ndef, water_level, heightmap, trans_liquid,
                   m_elements, elem_id, created>>

UpdateHeightmap(nmin, nmax) ==
    /\ call.op = "none"
    /\ heightmap' = updateHeightmap(nmin, nmax)
    /\ call' = [op |-> "updateHeightmap", nmin |-> nmin, nmax |-> nmax,
                before |-> heightmap]
    /\ UNCHANGED <<content, param1, ndef, water_level, trans_liquid,
                   m_elements, elem_id, created>>

NextGround ==
    \/ \E p2d \in Columns(ScanArea) : FindGroundLevelFull(p2d)
    \/ \E r \in Regions(ScanArea) :
         FindGroundLevel(<<r.MinEdge[1], r.MinEdge[3]>>, r.MinEdge[2], r.MaxEdge[2])
    \/ \E r \in Regions(ScanArea) : UpdateHeightmap(r.MinEdge, r.MaxEdge)

SpecGround == InitGround /\ [][NextGround]_vars

InitLiquid ==
    /\ \/ InitScanBuffer("air", "water")
       \/ InitScanBuffer("water", "air")
    /\ heightmap = NULL_HEIGHTMAP
    /\ \/ trans_liquid = <<>>
       \/ \E p \in Positions(ScanArea) : trans_liquid = <<p>>

UpdateLiquid(nmin, nmax) ==
    /\ call.op = "none"
    /\ LET pushed == updateLiquid(nmin, nmax) IN
         /\ trans_liquid' = PushAll(trans_liquid, pushed)
         /\ call' = [op |-> "updateLiquid", nmin |-> nmin, nmax |-> nmax,
                     pushed |-> pushed, before |-> trans_liquid]
    /\ UNCHANGED <<content, param1, ndef, water_level, heightmap,
                   m_elements, elem_id, created>>

NextLiquid == \E r \in Regions(ScanArea) : UpdateLiquid(r.MinEdge, r.MaxEdge)

SpecLiquid == InitLiquid /\ [][NextLiquid]_vars

---------------------------------------------------------------------------
(* GenElementManager.  Element objects are numbered 1 .. MaxElements in    *)
(* the order the caller creates them; slot i of the C++ vector is          *)
(* m_elements[i + 1]; elem_id holds the id field of every element object   *)
(* that exists.                                                            *)

Elements == 1 .. MaxElements

\* GenElement::name; names need not be unique
ElementNames == <<"a", "b", "c">>
name(e) == ElementNames[((e - 1) % Len(ElementNames)) + 1]

\* the slots of a table that hold NULL, as C++ indices
EmptySlots(els) == { i \in 0 .. (Len(els) - 1) : els[i + 1] = NULL }

Min(S) == CHOOSE m \in S : \A n \in S : m <= n

\* variant: add without the loop over the empty slots
add_NoReuse(els, ids, elem) ==
    LET nelem == Len(els) IN
    IF nelem >= ELEMENT_LIMIT
    THEN [elements |-> els, ids |-> ids, val |-> NO_ID]
    ELSE [elements |-> Append(els, elem),
          ids |-> [ids EXCEPT ![elem] = nelem],
          val |-> nelem]

\* variant: add with the limit test nelem > ELEMENT_LIMIT
add_OneTooMany(els, ids, elem) ==
    LET nelem == Len(els) IN
    IF EmptySlots(els) # {}
    THEN LET i == Min(EmptySlots(els)) IN
         [elements |-> [els EXCEPT ![i + 1] = elem],
          ids |-> [ids EXCEPT ![elem] = i],
          val |-> i]
    ELSE IF nelem > ELEMENT_LIMIT
    THEN [elements |-> els, ids |-> ids, val |-> NO_ID]
    ELSE [elements |-> Append(els, elem),
          ids |-> [ids EXCEPT ![elem] = nelem],
          val |-> nelem]

\* GenElementManager::add on the table els and the id fields ids:
\* [elements, ids, val], the table, the id fields and the returned value
add(els, ids, elem) ==
    LET nelem == Len(els) IN
    IF EmptySlots(els) # {}
    THEN LET i == Min(EmptySlots(els)) IN
         [elements |-> [els EXCEPT ![i + 1] = elem],
          ids |-> [ids EXCEPT ![elem] = i],
          val |-> i]
    ELSE IF nelem >= ELEMENT_LIMIT
    THEN [elements |-> els, ids |-> ids, val |-> NO_ID]
    ELSE [elements |-> Append(els, elem),
          ids |-> [ids EXCEPT ![elem] = nelem],
          val |-> nelem]

\* the loop of getByName over the table els, from slot i on
RECURSIVE NameScan(_, _, _)
NameScan(els, n, i) ==
    IF i = Len(els) THEN NULL
    ELSE IF els[i + 1] # NULL /\ name(els[i + 1]) = n THEN els[i + 1]
    ELSE NameScan(els, n, i + 1)

\* GenElementManager::getByName
getByName(n) == NameScan(m_elements, n, 0)

\* GenElementManager::update: [elements, val]
update(id, elem) ==
    IF id >= Len(m_elements)
    THEN [elements |-> m_elements, val |-> NULL]
    ELSE [elements |-> [m_elements EXCEPT ![id + 1] = elem],
          val |-> m_elements[id + 1]]

\* GenElementManager::remove
remove(id) == update(id, NULL)

---------------------------------------------------------------------------
(* The registry's specification: an empty registry, then any calls.  The   *)
(* caller hands over an element the registry does not hold: a new object,  *)
(* or one an earlier add turned down; it deletes the element that update   *)
(* or remove hands back, and creates at most MaxElements objects.          *)

Stored == { m_elements[i] : i \in 1 .. Len(m_elements) } \ {NULL}

Alive == DOMAIN elem_id

\* the elements a caller may hand over: those alive and not stored, and the
\* next object it creates
Offerable ==
    (Alive \ Stored) \cup (IF created < MaxElements THEN {created + 1} ELSE {})

\* the id field of a new element holds whatever its storage held
Garbage == {0, ELEMENT_LIMIT}

\* the id fields once elem exists, g being the id field of a new object
Created(elem, g) ==
    IF elem \in Alive THEN elem_id
    ELSE [e \in Alive \cup {elem} |-> IF e = elem THEN g ELSE elem_id[e]]

\* the id fields once the caller has deleted the element old
Deleted(ids, old) == [e \in (DOMAIN ids) \ {old} |-> ids[e]]

InitRegistry ==
    /\ m_elements = <<>>
    /\ elem_id = <<>>
    /\ created = 0
    /\ call = NoCall
    /\ content = <<>>
    /\ param1 = <<>>
    /\ ndef = NodeDef(LIGHT_SUN)
    /\ water_level = 0
    /\ heightmap = NULL_HEIGHTMAP
    /\ trans_liquid = <<>>

UnchangedWorld ==
    UNCHANGED <<content, param1, ndef, water_level, heightmap, trans_liquid>>

Add(elem, g) ==
    /\ elem \in Offerable
    /\ LET r == add(m_elements, Created(elem, g), elem) IN
         /\ m_elements' = r.elements
         /\ elem_id' = r.ids
         /\ call' = [op |-> "add", elem |-> elem, val |-> r.val,
                     idBefore |-> Created(elem, g)[elem]]
    /\ created' = IF elem \in Alive THEN created ELSE elem
    /\ UnchangedWorld

Update(id, elem, g) ==
    /\ elem \in Offerable
    /\ LET r == update(id, elem) IN
         /\ m_elements' = r.elements
         /\ elem_id' = Deleted(Created(elem, g), r.val)
         /\ call' = [op |-> "update", val |-> r.val]
    /\ created' = IF elem \in Alive THEN created ELSE elem
    /\ UnchangedWorld

Remove(id) ==
    /\ LET r == remove(id) IN
         /\ m_elements' = r.elements
         /\ elem_id' = Deleted(elem_id, r.val)
         /\ call' = [op |-> "remove", val |-> r.val]
    /\ UNCHANGED created
    /\ UnchangedWorld

GetByName(n) ==
    /\ call' = [op |-> "getByName", name |-> n, val |-> getByName(n)]
    /\ UNCHANGED <<m_elements, elem_id, created>>
    /\ UnchangedWorld

NextRegistry ==
    \/ \E e \in Elements, g \in Garbage : Add(e, g)
    \/ \E id \in 0 .. ELEMENT_LIMIT, e \in Elements, g \in Garbage : Update(id, e, g)
    \/ \E id \in 0 .. ELEMENT_LIMIT : Remove(id)
    \/ \E e \in Elements : GetByName(name(e))

SpecRegistry == InitRegistry /\ [][NextRegistry]_vars

---------------------------------------------------------------------------
(* Claims about lighting, checked under SpecLight. *)

RegionNodes == Positions(LightRegion)

\* a node whose light the sweep sets to its emission level
Emits(p) ==
    /\ content[p] # CONTENT_IGNORE
    /\ ndef[content[p]].light_propagates
    /\ Low4(ndef[content[p]].light_source) # 0

\* C1: every propagation step of the emission+spread pass, the sweep's six
\* calls included, writes exactly one less than the light of the adjacent
\* node it was propagated from.  The sweep's own calls write two less.
C1_EveryStepOneLess ==
    call.op = "calcLighting" =>
        \A s \in call.steps : s.written = s.from - 1

C7_NoShaftUnderwater ==
    (call.op = "calcLighting" /\ LightRegion.MaxEdge[2] < water_level) =>
        \A p \in RegionNodes :
            content[<<p[1], LightRegion.MaxEdge[2] + 1, p[3]>>] = CONTENT_IGNORE
                => p \notin call.sunlit

\* such a column whose nodes all let sunlight through, after calcLighting ran,
\* while a neighbouring column did get its shaft
C7_Witness ==
    /\ call.op = "calcLighting"
    /\ LightRegion.MaxEdge[2] < water_level
    /\ \E x \in LightRegion.MinEdge[1] .. LightRegion.MaxEdge[1] :
         /\ content[<<x, LightRegion.MaxEdge[2] + 1, 0>>] = CONTENT_IGNORE
         /\ \A y \in LightRegion.MinEdge[2] .. LightRegion.MaxEdge[2] :
              /\ ndef[content[<<x, y, 0>>]].sunlight_propagates
              /\ <<x, y, 0>> \notin call.sunlit
    /\ call.sunlit # {}

Abs(n) == IF n < 0 THEN -n ELSE n
Manhattan(p, q) == Abs(p[1] - q[1]) + Abs(p[2] - q[2]) + Abs(p[3] - q[3])

\* C9: in a region of dark, light-propagating nodes without sunlight and with
\* exactly one emitting node, of level L, the nodes that end with non-zero
\* light are exactly those at Manhattan distance at most L - 1 from it.
C9_DiamondRadius ==
    (/\ call.op = "calcLighting" /\ call.run = 1
     /\ call.sunlit = {}
     /\ \A p \in RegionNodes :
          ndef[content[p]].light_propagates /\ call.before[p] = 0
     /\ Cardinality({p \in RegionNodes : Emits(p)}) = 1)
    => LET s == CHOOSE p \in RegionNodes : Emits(p)
           L == Low4(ndef[content[s]].light_source)
       IN  {p \in RegionNodes : param1[p] # 0}
             = {p \in RegionNodes : Manhattan(p, s) <= L - 1}

---------------------------------------------------------------------------
(* Claims about the ground scans, checked under SpecGround. *)

\* the heightmap index of the column <<x, z>> of a region starting at nmin
\* that is nx columns wide
IndexOf(x, z, nmin, nmax) ==
    (z - nmin[3]) * (nmax[1] - nmin[1] + 1) + (x - nmin[1])

RegionColumns(nmin, nmax) ==
    { <<x, z>> : x \in nmin[1] .. nmax[1], z \in nmin[3] .. nmax[3] }

WalkableIn(p2d, ymin, ymax) ==
    { y \in ymin .. ymax : ndef[content[<<p2d[1], y, p2d[2]>>]].walkable }

Max(S) == CHOOSE m \in S : \A n \in S : n <= m

C8_GroundScansAgree ==
    /\ call.op = "findGroundLevelFull" =>
         /\ call.val = findGroundLevel(call.p2d, ScanArea.MinEdge[2], ScanArea.MaxEdge[2])
         /\ call.val =
              IF WalkableIn(call.p2d, ScanArea.MinEdge[2], ScanArea.MaxEdge[2]) = {}
              THEN ScanArea.MinEdge[2] - 1
              ELSE Max(WalkableIn(call.p2d, ScanArea.MinEdge[2], ScanArea.MaxEdge[2]))
    /\ call.op = "findGroundLevel" =>
         /\ call.val \in (call.ymin - 1) .. call.ymax
         /\ call.val = call.ymin - 1 <=> WalkableIn(call.p2d, call.ymin, call.ymax) = {}
         /\ (call.ymin = ScanArea.MinEdge[2] /\ call.ymax = ScanArea.MaxEdge[2])
              => call.val = findGroundLevelFull(call.p2d)

\* a full scan of a column with no walkable node, which returned MinEdge.Y - 1
C8_Witness ==
    /\ call.op = "findGroundLevelFull"
    /\ WalkableIn(call.p2d, ScanArea.MinEdge[2], ScanArea.MaxEdge[2]) = {}
    /\ call.val = ScanArea.MinEdge[2] - 1

---------------------------------------------------------------------------
(* Claims about the liquid scan, checked under SpecLiquid. *)

IsLiquid(p) == ndef[content[p]].liquid

\* the positions of a region whose node is classified unlike the node above,
\* the topmost node of a column being compared against 'liquid'
Transitions(nmin, nmax) ==
    { p \in Positions(VoxelArea(nmin, nmax)) :
        IsLiquid(p) # (IF p[2] = nmax[2] THEN TRUE ELSE IsLiquid(VAdd(p, <<0, 1, 0>>))) }

\* C4: updateLiquid pushes a position of the region exactly when its node is
\* classified unlike the node at y + 1, the topmost node being compared
\* against 'liquid'; so a column with a non-liquid top records its top, a
\* uniformly non-liquid column records only its top and a uniformly liquid
\* column records nothing.
C4_PushesAreTransitions ==
    call.op = "updateLiquid" =>
        /\ Range(call.pushed) = Transitions(call.nmin, call.nmax)
        /\ Len(call.pushed) = Cardinality(Transitions(call.nmin, call.nmax))
        /\ Range(trans_liquid) = Range(call.before) \cup Transitions(call.nmin, call.nmax)
        /\ \A c \in RegionColumns(call.nmin, call.nmax) :
             LET col == { p \in Positions(VoxelArea(call.nmin, call.nmax)) :
                            p[1] = c[1] /\ p[3] = c[2] }
                 top == <<c[1], call.nmax[2], c[2]>>
             IN  /\ ~IsLiquid(top) => top \in Range(call.pushed)
                 /\ (\A p \in col : ~IsLiquid(p))
                      => Range(call.pushed) \cap col = {top}
                 /\ (\A p \in col : IsLiquid(p))
                      => Range(call.pushed) \cap col = {}

\* a uniformly non-liquid column of three nodes that recorded only its top,
\* beside a uniformly liquid column that recorded nothing
C4_Witness ==
    /\ call.op = "updateLiquid"
    /\ call.nmax[2] - call.nmin[2] >= 2
    /\ \E c \in RegionColumns(call.nmin, call.nmax) :
         /\ \A y \in call.nmin[2] .. call.nmax[2] : ~IsLiquid(<<c[1], y, c[2]>>)
         /\ { p \in Range(call.pushed) : p[1] = c[1] } = {<<c[1], call.nmax[2], c[2]>>}
    /\ \E c \in RegionColumns(call.nmin, call.nmax) :
         /\ \A y \in call.nmin[2] .. call.nmax[2] : IsLiquid(<<c[1], y, c[2]>>)
         /\ { p \in Range(call.pushed) : p[1] = c[1] } = {}

---------------------------------------------------------------------------
(* Claims about the registry, checked under SpecRegistry.  In a step that  *)
(* is a call of add, call' holds the element and the returned value, the   *)
(* unprimed variables the registry before the call.                        *)

\* the slot (C++ index) of a stored element
SlotOf(els, e) == Min({ i \in 0 .. (Len(els) - 1) : els[i + 1] = e })

\* what C5 says of every add but for the table's growth: the other elements
\* keep their id, and a name that resolved to an element stored below the
\* slot taken still resolves to it
AddLeavesOthers(e, v) ==
    /\ \A a \in Stored : elem_id'[a] = elem_id[a]
    /\ \A a \in Stored :
         (v # NO_ID /\ SlotOf(m_elements, a) < v
            /\ NameScan(m_elements, name(a), 0) = a)
         => NameScan(m_elements', name(a), 0) = a

\* C5 as stated: add(e) stores e in the lowest-index empty slot if there is
\* one, otherwise in a new slot at index = slot count; it returns that index,
\* sets e's id to it and leaves every other slot unchanged.
C5_AddStoresAlways ==
    [][call'.op = "add" =>
        LET e == call'.elem
            v == call'.val
        IN  /\ IF EmptySlots(m_elements) # {}
               THEN /\ v = Min(EmptySlots(m_elements))
                    /\ m_elements' = [m_elements EXCEPT ![v + 1] = e]
                    /\ elem_id'[e] = v
               ELSE /\ v = Len(m_elements)
                    /\ m_elements' = Append(m_elements, e)
                    /\ elem_id'[e] = v
            /\ AddLeavesOthers(e, v)]_vars

\* C5 as amended: add(e) stores e in the lowest-index empty slot if there is
\* one, otherwise, when fewer than ELEMENT_LIMIT slots exist, in a new slot
\* at index = slot count; it returns that index, sets e's id to it and leaves
\* every other slot unchanged.
C5_AddStoresBelowLimit ==
    [][call'.op = "add" =>
        LET e == call'.elem
            v == call'.val
        IN  /\ IF EmptySlots(m_elements) # {}
               THEN /\ v = Min(EmptySlots(m_elements))
                    /\ m_elements' = [m_elements EXCEPT ![v + 1] = e]
                    /\ elem_id'[e] = v
               ELSE Len(m_elements) < ELEMENT_LIMIT =>
                    /\ v = Len(m_elements)
                    /\ m_elements' = Append(m_elements, e)
                    /\ elem_id'[e] = v
            /\ AddLeavesOthers(e, v)]_vars

\* elements 1, 2, 3 were added at ids 0, 1, 2, id 1 was removed and element 4
\* (which bears element 1's name) was added: it sits at id 1, and its name
\* still resolves to element 1 at id 0
C5_Witness ==
    /\ call.op = "add" /\ call.elem = 4 /\ call.val = 1
    /\ m_elements = <<1, 4, 3>>
    /\ elem_id[1] = 0 /\ elem_id[4] = 1 /\ elem_id[3] = 2
    /\ name(4) = name(1)
    /\ getByName(name(1)) = 1

\* C6: from an empty registry every add succeeds while fewer than
\* ELEMENT_LIMIT elements are stored; an add issued when ELEMENT_LIMIT slots
\* exist and none is empty returns the overflow value, which is no valid id,
\* and leaves the table and the element's id as they were; the slot count
\* never exceeds ELEMENT_LIMIT.
C6_CapacityBound ==
    /\ [](Len(m_elements) <= ELEMENT_LIMIT)
    /\ [][call'.op = "add" =>
            LET e == call'.elem
                v == call'.val
            IN  /\ Cardinality(Stored) < ELEMENT_LIMIT =>
                     /\ v \in 0 .. (Len(m_elements') - 1)
                     /\ m_elements'[v + 1] = e
                     /\ elem_id'[e] = v
                /\ (Len(m_elements) = ELEMENT_LIMIT /\ EmptySlots(m_elements) = {}) =>
                     /\ v = NO_ID
                     /\ v \notin 0 .. (ELEMENT_LIMIT - 1)
                     /\ m_elements' = m_elements
                     /\ elem_id'[e] = call'.idBefore
                     /\ \A a \in Alive : elem_id'[a] = elem_id[a]]_vars

\* an add that a full table turned down
C6_Witness ==
    /\ call.op = "add" /\ call.val = NO_ID
    /\ Len(m_elements) = ELEMENT_LIMIT /\ EmptySlots(m_elements) = {}
    /\ call.elem \notin Stored
    /\ elem_id[call.elem] = call.idBefore

\* C10: every non-empty slot i holds an element whose id field is i.
C10_IdIsSlot ==
    \A i \in 0 .. (Len(m_elements) - 1) :
        m_elements[i + 1] # NULL => elem_id[m_elements[i + 1]] = i

====
